---- MODULE Spec2Model ----
(***************************************************************************)
(* COLOSSUS Editor (src/editor.cpp, src/editor.h): the Editor object, the  *)
(* GtkTextBuffer it owns, the files it reads and writes, and the handlers  *)
(* GTK dispatches on the single main thread.                               *)
(*                                                                         *)
(* A handler is one action.  A modal dialog (gtk_dialog_run) returns the   *)
(* user's response, which is an input of the action; the prompts a handler *)
(* showed and the answers it got are recorded in the history variable      *)
(* `last`.  Texts are sequences of one-character strings.                  *)
(***************************************************************************)
EXTENDS Integers, Sequences, FiniteSets, TLC

VARIABLES
    started,                \* the GApplication delivered "activate" or "open"
    text,                   \* content of buffer_
    mark_insert,            \* offset of the buffer's "insert" mark (the cursor)
    mark_selection_bound,   \* offset of the buffer's "selection_bound" mark
    current_file_,
    modified_,
    file_monitor_,          \* nullptr, or the path the GFileMonitor was made for
    file_mtime_utc_us_,
    suppress_monitor_once_,
    opened_via_cli_,
    trim_ws_on_save_,
    ensure_newline_eof_,
    search_text,            \* search text of search_settings_
    disk,                   \* file name -> bytes, or NOENT
    mtime,                  \* openable path -> modification time (0: no file)
    armed_by,               \* history: what set suppress_monitor_once_, while it is set
    last                    \* history: the last handler run and what it did

vars == <<started, text, mark_insert, mark_selection_bound, current_file_,
          modified_, file_monitor_, file_mtime_utc_us_, suppress_monitor_once_,
          opened_via_cli_, trim_ws_on_save_, ensure_newline_eof_, search_text,
          disk, mtime, armed_by, last>>

----------------------------------------------------------------------------
(* Bounds of the model *)

\* longest text the user builds by typing and pasting
MaxLen == 1
\* modification times are 1..MaxMtime
MaxMtime == 2
\* longest text whose save-time fixes are examined
MaxFixLen == 3
\* longest text that is searched
MaxSearchLen == 4
\* longest text in which the Replace dialog replaces
MaxReplaceLen == 3

\* the paths the user can name in a dialog, on the command line or from the
\* recent-files list
Paths == {"p", "q"}
\* the paths no program can write: files of a read-only place, which exist
ReadOnlyPaths == {"q"}
WritablePaths == Paths \ ReadOnlyPaths
\* characters the user types
TypeChars == {"a"}
\* what other programs write into the files
ExtTexts == {<<"x">>}
\* the characters of the texts whose save-time fixes are examined: a letter,
\* a blank and the line separator
FixChars == {"a", " ", "\n"}
\* the characters of the texts that are searched, and what the user may type
\* into the Find dialog: nothing, a letter in the other case, a letter, two letters
SearchChars == {"a", "A", "b"}
FindPatterns == {<<>>, <<"A">>, <<"b">>, <<"a", "b">>, <<"h", "e", "l", "l", "o">>}
\* the characters of the texts in which the Replace dialog replaces, and what
\* the user may type into its two entries
ReplaceChars == {"a", "b"}
ReplacePatterns == {<<>>, <<"a">>, <<"a", "b">>}
ReplaceStrings == {<<>>, <<"b">>, <<"a", "a">>}
\* a text of two lines that holds one word in two spellings
HelloText ==
    <<"H", "e", "l", "l", "o", " ", "W", "o", "r", "l", "d", "\n",
      "h", "e", "l", "l", "o", " ", "a", "g", "a", "i", "n", "\n">>
\* a text of three lines, two of which end in whitespace
TrimExample == <<"a", " ", "\n", "b", "\t", "\n", "c">>
\* what the clipboard holds when the user pastes
ClipTexts == {<<"a">>}
\* what the user enters in the find entry of the Replace dialog
Patterns == {<<>>, <<"a">>}
\* what the user enters in the replace entry
Replacements == {<<>>, <<"a">>}

nullptr == ""
\* no such file: it differs from every content, whose elements are characters
NOENT == <<"NOENT">>

Min(a, b) == IF a < b THEN a ELSE b
Max(a, b) == IF a > b THEN a ELSE b

\* s[a+1 .. b] as offsets: the half-open range [a, b)
Range(s, a, b) == SubSeq(s, a + 1, b)

----------------------------------------------------------------------------
(* Helpers of the anonymous namespace *)

\* the vertical tab, for which TLA+ strings have no escape
VT == "VT"

\* std::isspace in the "C" locale
is_space_char(c) == c \in {" ", "\t", "\n", VT, "\f", "\r"}

RECURSIVE rtrim_copy(_)
rtrim_copy(s) ==
    IF s # <<>> /\ is_space_char(s[Len(s)])
    THEN rtrim_copy(SubSeq(s, 1, Len(s) - 1))
    ELSE s

make_backup_path(path) == path \o ".bak"

Files == Paths \cup {make_backup_path(p) : p \in Paths}
WritableFiles == WritablePaths \cup {make_backup_path(p) : p \in WritablePaths}

\* file_mtime_us_gio: 0 when the file cannot be queried
get_file_mtime_us(w, path) ==
    IF path \in Paths /\ w.disk[path] # NOENT THEN w.mtime[path] ELSE 0

----------------------------------------------------------------------------
(* The state a handler works on: the Editor's fields, the buffer, the files, *)
(* and what the handler has done so far (asked, io, rec, ret).               *)

World ==
    [text |-> text,
     ins |-> mark_insert,
     bound |-> mark_selection_bound,
     current_file_ |-> current_file_,
     modified_ |-> modified_,
     file_monitor_ |-> file_monitor_,
     file_mtime_utc_us_ |-> file_mtime_utc_us_,
     suppress_monitor_once_ |-> suppress_monitor_once_,
     opened_via_cli_ |-> opened_via_cli_,
     search_text |-> search_text,
     disk |-> disk,
     mtime |-> mtime,
     asked |-> <<>>,      \* the prompts shown: <<question, accepted>>
     io |-> "none",       \* outcome of the file operation
     rec |-> "none",      \* outcome of the file-monitor handler
     bak |-> "none",      \* outcome of the backup, "none" when none was tried
     searches |-> 0,      \* directional searches made by search_find_next
     count |-> 0,         \* count of search_replace_all
     repl |-> <<>>,       \* the replacement the Replace dialog was given
     ret |-> TRUE]        \* return value of the last call

mark_modified(w, is_modified) == [w EXCEPT !.modified_ = is_modified]

\* s_on_buffer_changed that does not mark the document modified
s_on_buffer_changed_ignored(w) == w

s_on_buffer_changed(w) == mark_modified(w, TRUE)

\* gtk_text_buffer_delete of [a, b): marks inside the range collapse to a, the
\* buffer emits "changed"
buffer_delete(w, a, b) ==
    IF a = b THEN w
    ELSE LET adj(m) == IF m <= a THEN m ELSE IF m >= b THEN m - (b - a) ELSE a
         IN s_on_buffer_changed(
                [w EXCEPT !.text = Range(w.text, 0, a) \o Range(w.text, b, Len(w.text)),
                          !.ins = adj(w.ins),
                          !.bound = adj(w.bound)])

\* gtk_text_buffer_insert of s at offset at: both marks have right gravity, the
\* buffer emits "changed"
buffer_insert(w, at, s) ==
    IF s = <<>> THEN w
    ELSE LET adj(m) == IF m >= at THEN m + Len(s) ELSE m
         IN s_on_buffer_changed(
                [w EXCEPT !.text = Range(w.text, 0, at) \o s \o Range(w.text, at, Len(w.text)),
                          !.ins = adj(w.ins),
                          !.bound = adj(w.bound)])

\* gtk_text_buffer_set_text: delete everything, insert at the start
buffer_set_text(w, t) == buffer_insert(buffer_delete(w, 0, Len(w.text)), 0, t)

\* gtk_text_buffer_select_range
buffer_select_range(w, i, b) == [w EXCEPT !.ins = i, !.bound = b]

has_selection(w) == w.ins # w.bound
sel_start(w) == Min(w.ins, w.bound)
sel_end(w) == Max(w.ins, w.bound)

----------------------------------------------------------------------------
(* Prompts *)

\* the run of a modal dialog: the next of the user's answers
ask(w, question, in) ==
    LET answer == in.ans[Len(w.asked) + 1]
    IN [w EXCEPT !.asked = Append(@, <<question, answer>>), !.ret = answer]

\* maybe_confirm_discard that asks whether or not there are unsaved changes
maybe_confirm_discard_always(w, in) == ask(w, "discard", in)

maybe_confirm_discard(w, in) ==
    IF ~w.modified_ THEN [w EXCEPT !.ret = TRUE]
    ELSE ask(w, "discard", in)

confirm_reload_external(w, in) == ask(w, "reload", in)

----------------------------------------------------------------------------
(* File monitor *)

\* remove_file_monitor that leaves the monitor in place
remove_file_monitor_keeps(w) == w

remove_file_monitor(w) == [w EXCEPT !.file_monitor_ = nullptr]

\* install_file_monitor that retires the previous monitor only once the new one
\* is there
install_file_monitor_late(w, path, in) ==
    IF path = "" THEN remove_file_monitor(w)
    ELSE IF ~in.monOk THEN w
    ELSE [w EXCEPT !.file_monitor_ = path,
                   !.file_mtime_utc_us_ = get_file_mtime_us(w, path)]

install_file_monitor(w, path, in) ==
    LET w1 == remove_file_monitor(w)
    IN IF path = "" THEN w1
       ELSE IF ~in.monOk THEN w1
       ELSE [w1 EXCEPT !.file_monitor_ = path,
                       !.file_mtime_utc_us_ = get_file_mtime_us(w1, path)]

----------------------------------------------------------------------------
(* File operations *)

new_file(w, in) ==
    LET w1 == maybe_confirm_discard(w, in)
    IN IF ~w1.ret THEN [w1 EXCEPT !.io = "declined"]
       ELSE LET w2 == buffer_set_text(w1, <<>>)
                w3 == [w2 EXCEPT !.current_file_ = ""]
                w4 == remove_file_monitor(w3)
                w5 == mark_modified(w4, FALSE)
            IN [w5 EXCEPT !.io = "new"]

\* File > Quit: gtk_window_close ends the application
s_on_quit_activate(w, in) ==
    LET w1 == maybe_confirm_discard(w, in)
    IN IF ~w1.ret THEN [w1 EXCEPT !.io = "declined"]
       ELSE [w1 EXCEPT !.io = "closed"]

\* g_file_get_contents: "OK", "NOENT", or another error
read_result(w, path, in) ==
    IF ~in.readOk THEN "EIO"
    ELSE IF w.disk[path] = NOENT THEN "NOENT"
    ELSE "OK"

\* open_file_from_path that installs the monitor for a file that does not exist
open_file_from_path_watches_new(w, path, in) ==
    LET w1 == IF ~w.opened_via_cli_ /\ w.modified_
              THEN maybe_confirm_discard(w, in)
              ELSE [w EXCEPT !.ret = TRUE]
        res == read_result(w1, path, in)
    IN IF ~w1.ret THEN [w1 EXCEPT !.io = "declined"]
       ELSE IF res = "OK" THEN
            LET w2 == [w1 EXCEPT !.suppress_monitor_once_ = TRUE]
                w3 == buffer_set_text(w2, w2.disk[path])
                w4 == [w3 EXCEPT !.current_file_ = path]
                w5 == install_file_monitor(w4, path, in)
                w6 == mark_modified(w5, FALSE)
            IN [w6 EXCEPT !.io = "loaded"]
       ELSE IF res = "NOENT" THEN
            LET w2 == buffer_set_text(w1, <<>>)
                w3 == [w2 EXCEPT !.current_file_ = path]
                w4 == install_file_monitor(w3, path, in)
                w5 == mark_modified(w4, FALSE)
            IN [w5 EXCEPT !.io = "created"]
       ELSE [w1 EXCEPT !.io = "ioerror"]

\* open_file_from_path that takes every read error for G_FILE_ERROR_NOENT
open_file_from_path_any_error(w, path, in) ==
    LET w1 == IF ~w.opened_via_cli_ /\ w.modified_
              THEN maybe_confirm_discard(w, in)
              ELSE [w EXCEPT !.ret = TRUE]
        res == read_result(w1, path, in)
    IN IF ~w1.ret THEN [w1 EXCEPT !.io = "declined"]
       ELSE IF res = "OK" THEN
            LET w2 == [w1 EXCEPT !.suppress_monitor_once_ = TRUE]
                w3 == buffer_set_text(w2, w2.disk[path])
                w4 == [w3 EXCEPT !.current_file_ = path]
                w5 == install_file_monitor(w4, path, in)
                w6 == mark_modified(w5, FALSE)
            IN [w6 EXCEPT !.io = "loaded"]
       ELSE LET w2 == buffer_set_text(w1, <<>>)
                w3 == [w2 EXCEPT !.current_file_ = path]
                w4 == remove_file_monitor(w3)
                w5 == mark_modified(w4, FALSE)
            IN [w5 EXCEPT !.io = IF res = "NOENT" THEN "created" ELSE "ioerror"]

\* open_file_from_path without the mark_modified(false) that follows a load
open_file_from_path_keeps_dirty(w, path, in) ==
    LET w1 == IF ~w.opened_via_cli_ /\ w.modified_
              THEN maybe_confirm_discard(w, in)
              ELSE [w EXCEPT !.ret = TRUE]
        res == read_result(w1, path, in)
    IN IF ~w1.ret THEN [w1 EXCEPT !.io = "declined"]
       ELSE IF res = "OK" THEN
            LET w2 == [w1 EXCEPT !.suppress_monitor_once_ = TRUE]
                w3 == buffer_set_text(w2, w2.disk[path])
                w4 == [w3 EXCEPT !.current_file_ = path]
                w5 == install_file_monitor(w4, path, in)
            IN [w5 EXCEPT !.io = "loaded"]
       ELSE IF res = "NOENT" THEN
            LET w2 == buffer_set_text(w1, <<>>)
                w3 == [w2 EXCEPT !.current_file_ = path]
                w4 == remove_file_monitor(w3)
                w5 == mark_modified(w4, FALSE)
            IN [w5 EXCEPT !.io = "created"]
       ELSE [w1 EXCEPT !.io = "ioerror"]

open_file_from_path(w, path, in) ==
    LET w1 == IF ~w.opened_via_cli_ /\ w.modified_
              THEN maybe_confirm_discard(w, in)
              ELSE [w EXCEPT !.ret = TRUE]
        res == read_result(w1, path, in)
    IN IF ~w1.ret THEN [w1 EXCEPT !.io = "declined"]
       ELSE IF res = "OK" THEN
            LET w2 == [w1 EXCEPT !.suppress_monitor_once_ = TRUE]
                w3 == buffer_set_text(w2, w2.disk[path])
                w4 == [w3 EXCEPT !.current_file_ = path]
                w5 == install_file_monitor(w4, path, in)
                w6 == mark_modified(w5, FALSE)
            IN [w6 EXCEPT !.io = "loaded"]
       ELSE IF res = "NOENT" THEN
            LET w2 == buffer_set_text(w1, <<>>)
                w3 == [w2 EXCEPT !.current_file_ = path]
                w4 == remove_file_monitor(w3)
                w5 == mark_modified(w4, FALSE)
            IN [w5 EXCEPT !.io = "created"]
       ELSE [w1 EXCEPT !.io = "ioerror"]

\* the file chooser of open_file: in.choice is the file picked, or nullptr when
\* the user cancels
open_file(w, in) ==
    LET w1 == maybe_confirm_discard(w, in)
    IN IF ~w1.ret THEN [w1 EXCEPT !.io = "declined"]
       ELSE IF in.choice = nullptr THEN [w1 EXCEPT !.io = "cancelled"]
       ELSE open_file_from_path(w1, in.choice, in)

\* std::getline until it fails: the text after the last "\n" is a line only if
\* it is not empty
RECURSIVE getlines(_)
getlines(t) ==
    IF t = <<>> THEN <<>>
    ELSE LET nl == {i \in 1..Len(t) : t[i] = "\n"}
         IN IF nl = {} THEN <<t>>
            ELSE LET i == CHOOSE k \in nl : \A j \in nl : k <= j
                 IN <<SubSeq(t, 1, i - 1)>> \o getlines(SubSeq(t, i + 1, Len(t)))

RECURSIVE join_trimmed(_)
join_trimmed(lines) ==
    IF lines = <<>> THEN <<>>
    ELSE IF Len(lines) = 1 THEN rtrim_copy(lines[1])
    ELSE rtrim_copy(lines[1]) \o <<"\n">> \o join_trimmed(Tail(lines))

apply_save_fixes(t, trim, ensure) ==
    LET t1 == IF trim THEN join_trimmed(getlines(t)) ELSE t
    IN IF ensure /\ (t1 = <<>> \/ t1[Len(t1)] # "\n") THEN Append(t1, "\n") ELSE t1

\* g_file_set_contents: the file is replaced as a whole, or left as it was
file_set_contents(w, path, bytes, in) ==
    IF in.writeOk
    THEN [w EXCEPT !.disk[path] = bytes, !.mtime[path] = in.now, !.ret = TRUE]
    ELSE [w EXCEPT !.ret = FALSE]

\* the best-effort copy to <path>.bak: in.bak is "ok", "src_fail" (the file
\* cannot be read: the backup is truncated) or "dst_fail" (it cannot be made)
backup_existing(w, in) ==
    IF w.disk[w.current_file_] = NOENT THEN w
    ELSE IF in.bak = "dst_fail" THEN [w EXCEPT !.bak = in.bak]
    ELSE [w EXCEPT !.bak = in.bak,
                   !.disk[make_backup_path(w.current_file_)] =
                        IF in.bak = "ok" THEN w.disk[w.current_file_] ELSE <<>>]

\* the file chooser of save_file_as: in.choice as in open_file
save_file_as(w, in) ==
    IF in.choice = nullptr THEN [w EXCEPT !.io = "cancelled"]
    ELSE LET bytes == apply_save_fixes(w.text, trim_ws_on_save_, ensure_newline_eof_)
             w1 == [w EXCEPT !.suppress_monitor_once_ = TRUE]
             w2 == file_set_contents(w1, in.choice, bytes, in)
         IN IF w2.ret THEN
                 LET w3 == [w2 EXCEPT !.current_file_ = in.choice]
                     w4 == install_file_monitor(w3, in.choice, in)
                     w5 == [w4 EXCEPT !.file_mtime_utc_us_ = get_file_mtime_us(w4, in.choice)]
                     w6 == mark_modified(w5, FALSE)
                 IN [w6 EXCEPT !.io = "saved"]
            ELSE [w2 EXCEPT !.io = "ioerror"]

\* save_file without the suppress_monitor_once_ = true before the write
save_file_unsuppressed(w, in) ==
    IF w.current_file_ = "" THEN save_file_as(w, in)
    ELSE LET bytes == apply_save_fixes(w.text, trim_ws_on_save_, ensure_newline_eof_)
             w1 == backup_existing(w, in)
             w3 == file_set_contents(w1, w1.current_file_, bytes, in)
         IN IF w3.ret THEN
                 LET w4 == [w3 EXCEPT !.file_mtime_utc_us_ = get_file_mtime_us(w3, w3.current_file_)]
                     w5 == mark_modified(w4, FALSE)
                 IN [w5 EXCEPT !.io = "saved"]
            ELSE [w3 EXCEPT !.io = "ioerror"]

save_file(w, in) ==
    IF w.current_file_ = "" THEN save_file_as(w, in)
    ELSE LET bytes == apply_save_fixes(w.text, trim_ws_on_save_, ensure_newline_eof_)
             w1 == backup_existing(w, in)
             w2 == [w1 EXCEPT !.suppress_monitor_once_ = TRUE]
             w3 == file_set_contents(w2, w2.current_file_, bytes, in)
         IN IF w3.ret THEN
                 LET w4 == [w3 EXCEPT !.file_mtime_utc_us_ = get_file_mtime_us(w3, w3.current_file_)]
                     w5 == mark_modified(w4, FALSE)
                 IN [w5 EXCEPT !.io = "saved"]
            ELSE [w3 EXCEPT !.io = "ioerror"]

----------------------------------------------------------------------------
(* Static callbacks *)

s_on_reload_activate(w, in) ==
    IF w.current_file_ = "" THEN [w EXCEPT !.io = "nofile"]
    ELSE LET w1 == IF w.modified_ THEN maybe_confirm_discard(w, in)
                   ELSE [w EXCEPT !.ret = TRUE]
         IN IF ~w1.ret THEN [w1 EXCEPT !.io = "declined"]
            ELSE open_file_from_path(w1, w1.current_file_, in)

s_on_recent_activated(w, path, in) ==
    LET w1 == [w EXCEPT !.opened_via_cli_ = TRUE]
        w2 == open_file_from_path(w1, path, in)
    IN [w2 EXCEPT !.opened_via_cli_ = FALSE]

\* on_open with one file on the command line
on_open(w, path, in) ==
    LET w1 == [w EXCEPT !.opened_via_cli_ = TRUE]
        w2 == open_file_from_path(w1, path, in)
    IN [w2 EXCEPT !.opened_via_cli_ = FALSE]

\* the event types the handler acts on
ActedEvents == {"CHANGED", "CHANGES_DONE_HINT", "CREATED", "MOVED_IN"}
\* the GFileMonitorEvent values the model delivers
MonitorEvents == {"CHANGED", "CREATED", "DELETED"}

\* s_on_file_monitor_changed without the return on now_mtime == 0
s_on_file_monitor_changed_nozero(w, ev, in) ==
    IF w.current_file_ = "" THEN [w EXCEPT !.rec = "nofile"]
    ELSE IF w.suppress_monitor_once_
    THEN [w EXCEPT !.suppress_monitor_once_ = FALSE, !.rec = "suppressed"]
    ELSE IF ev \notin ActedEvents THEN [w EXCEPT !.rec = "othertype"]
    ELSE LET now_mtime == get_file_mtime_us(w, w.current_file_)
         IN IF now_mtime = w.file_mtime_utc_us_ THEN [w EXCEPT !.rec = "same"]
            ELSE LET w1 == [w EXCEPT !.file_mtime_utc_us_ = now_mtime, !.rec = "detected"]
                 IN IF w1.modified_
                    THEN LET w2 == confirm_reload_external(w1, in)
                         IN IF w2.ret
                            THEN open_file_from_path(w2, w2.current_file_, in)
                            ELSE [w2 EXCEPT !.io = "declined"]
                    ELSE open_file_from_path(w1, w1.current_file_, in)

\* s_on_file_monitor_changed that returns on suppress_monitor_once_ without
\* clearing it
s_on_file_monitor_changed_sticky(w, ev, in) ==
    IF w.current_file_ = "" THEN [w EXCEPT !.rec = "nofile"]
    ELSE IF w.suppress_monitor_once_ THEN [w EXCEPT !.rec = "suppressed"]
    ELSE IF ev \notin ActedEvents THEN [w EXCEPT !.rec = "othertype"]
    ELSE LET now_mtime == get_file_mtime_us(w, w.current_file_)
         IN IF now_mtime = 0 THEN [w EXCEPT !.rec = "nostat"]
            ELSE IF now_mtime = w.file_mtime_utc_us_ THEN [w EXCEPT !.rec = "same"]
            ELSE LET w1 == [w EXCEPT !.file_mtime_utc_us_ = now_mtime, !.rec = "detected"]
                 IN IF w1.modified_
                    THEN LET w2 == confirm_reload_external(w1, in)
                         IN IF w2.ret
                            THEN open_file_from_path(w2, w2.current_file_, in)
                            ELSE [w2 EXCEPT !.io = "declined"]
                    ELSE open_file_from_path(w1, w1.current_file_, in)

\* s_on_file_monitor_changed with the answer of confirm_reload_external ignored
s_on_file_monitor_changed_unconfirmed(w, ev, in) ==
    IF w.current_file_ = "" THEN [w EXCEPT !.rec = "nofile"]
    ELSE IF w.suppress_monitor_once_
    THEN [w EXCEPT !.suppress_monitor_once_ = FALSE, !.rec = "suppressed"]
    ELSE IF ev \notin ActedEvents THEN [w EXCEPT !.rec = "othertype"]
    ELSE LET now_mtime == get_file_mtime_us(w, w.current_file_)
         IN IF now_mtime = 0 THEN [w EXCEPT !.rec = "nostat"]
            ELSE IF now_mtime = w.file_mtime_utc_us_ THEN [w EXCEPT !.rec = "same"]
            ELSE LET w1 == [w EXCEPT !.file_mtime_utc_us_ = now_mtime, !.rec = "detected"]
                 IN IF w1.modified_
                    THEN open_file_from_path(confirm_reload_external(w1, in),
                                             w1.current_file_, in)
                    ELSE open_file_from_path(w1, w1.current_file_, in)

\* s_on_file_monitor_changed that records the observed mtime only when it
\* reloads
s_on_file_monitor_changed_forgets(w, ev, in) ==
    IF w.current_file_ = "" THEN [w EXCEPT !.rec = "nofile"]
    ELSE IF w.suppress_monitor_once_
    THEN [w EXCEPT !.suppress_monitor_once_ = FALSE, !.rec = "suppressed"]
    ELSE IF ev \notin ActedEvents THEN [w EXCEPT !.rec = "othertype"]
    ELSE LET now_mtime == get_file_mtime_us(w, w.current_file_)
         IN IF now_mtime = 0 THEN [w EXCEPT !.rec = "nostat"]
            ELSE IF now_mtime = w.file_mtime_utc_us_ THEN [w EXCEPT !.rec = "same"]
            ELSE LET w1 == [w EXCEPT !.file_mtime_utc_us_ = now_mtime, !.rec = "detected"]
                 IN IF w1.modified_
                    THEN LET w2 == confirm_reload_external(w1, in)
                         IN IF w2.ret
                            THEN open_file_from_path(w2, w2.current_file_, in)
                            ELSE [w2 EXCEPT !.io = "declined",
                                            !.file_mtime_utc_us_ = w.file_mtime_utc_us_]
                    ELSE open_file_from_path(w1, w1.current_file_, in)

s_on_file_monitor_changed(w, ev, in) ==
    IF w.current_file_ = "" THEN [w EXCEPT !.rec = "nofile"]
    ELSE IF w.suppress_monitor_once_
    THEN [w EXCEPT !.suppress_monitor_once_ = FALSE, !.rec = "suppressed"]
    ELSE IF ev \notin ActedEvents THEN [w EXCEPT !.rec = "othertype"]
    ELSE LET now_mtime == get_file_mtime_us(w, w.current_file_)
         IN IF now_mtime = 0 THEN [w EXCEPT !.rec = "nostat"]
            ELSE IF now_mtime = w.file_mtime_utc_us_ THEN [w EXCEPT !.rec = "same"]
            ELSE LET w1 == [w EXCEPT !.file_mtime_utc_us_ = now_mtime, !.rec = "detected"]
                 IN IF w1.modified_
                    THEN LET w2 == confirm_reload_external(w1, in)
                         IN IF w2.ret
                            THEN open_file_from_path(w2, w2.current_file_, in)
                            ELSE [w2 EXCEPT !.io = "declined"]
                    ELSE open_file_from_path(w1, w1.current_file_, in)

----------------------------------------------------------------------------
(* Edit operations: the key presses GtkTextView handles itself, and the     *)
(* clipboard operations of the Edit menu                                    *)

delete_selection(w) ==
    IF has_selection(w) THEN buffer_delete(w, sel_start(w), sel_end(w)) ELSE w

\* a printable key: the selection is replaced by the character
key_insert(w, c) ==
    LET w1 == delete_selection(w) IN buffer_insert(w1, w1.ins, <<c>>)

\* BackSpace: the selection, or the character before the cursor
key_backspace(w) ==
    IF has_selection(w) THEN delete_selection(w)
    ELSE IF w.ins > 0 THEN buffer_delete(w, w.ins - 1, w.ins)
    ELSE w

cut(w) == delete_selection(w)

paste(w, clip) ==
    LET w1 == delete_selection(w) IN buffer_insert(w1, w1.ins, clip)

select_all(w) == buffer_select_range(w, 0, Len(w.text))

----------------------------------------------------------------------------
(* Search and replace: the GtkSourceSearchContext made by setup_search is   *)
(* case-insensitive and does not wrap                                       *)

\* a comparison of letters that tells the cases apart
fold_exact(c) == c

\* the letters of the model, case-folded
fold(c) ==
    CASE c = "A" -> "a" [] c = "X" -> "x" [] c = "H" -> "h" [] c = "W" -> "w" [] OTHER -> c

match_at(t, p, i) ==
    /\ p # <<>>
    /\ i + Len(p) <= Len(t)
    /\ \A k \in 1..Len(p) : fold(t[i + k]) = fold(p[k])

NoMatch == [found |-> FALSE, ms |-> 0, me |-> 0]

\* a forward search that returns the last match at or after from
search_forward_last(w, from) ==
    LET at == {i \in from..Len(w.text) : match_at(w.text, w.search_text, i)}
    IN IF at = {} THEN NoMatch
       ELSE LET i == CHOOSE k \in at : \A j \in at : k >= j
            IN [found |-> TRUE, ms |-> i, me |-> i + Len(w.search_text)]

\* gtk_source_search_context_forward: the first match starting at or after from
search_forward(w, from) ==
    LET at == {i \in from..Len(w.text) : match_at(w.text, w.search_text, i)}
    IN IF at = {} THEN NoMatch
       ELSE LET i == CHOOSE k \in at : \A j \in at : k <= j
            IN [found |-> TRUE, ms |-> i, me |-> i + Len(w.search_text)]

\* a backward search that returns the first match ending at or before from
search_backward_first(w, from) ==
    LET at == {i \in 0..from : match_at(w.text, w.search_text, i)
                               /\ i + Len(w.search_text) <= from}
    IN IF at = {} THEN NoMatch
       ELSE LET i == CHOOSE k \in at : \A j \in at : k <= j
            IN [found |-> TRUE, ms |-> i, me |-> i + Len(w.search_text)]

\* gtk_source_search_context_backward: the last match ending at or before from
search_backward(w, from) ==
    LET at == {i \in 0..from : match_at(w.text, w.search_text, i)
                               /\ i + Len(w.search_text) <= from}
    IN IF at = {} THEN NoMatch
       ELSE LET i == CHOOSE k \in at : \A j \in at : k >= j
            IN [found |-> TRUE, ms |-> i, me |-> i + Len(w.search_text)]

\* search_find_next without the second search
search_find_next_nowrap(w, backwards) ==
    LET m == IF backwards THEN search_backward(w, w.ins) ELSE search_forward(w, w.ins)
        w1 == [w EXCEPT !.searches = 1]
    IN IF ~m.found THEN w1 ELSE buffer_select_range(w1, m.ms, m.me)

\* search_find_next that drops the selection when it finds nothing
search_find_next_unselects(w, backwards) ==
    LET first == IF backwards THEN search_backward(w, w.ins)
                 ELSE search_forward(w, w.ins)
        m == IF first.found THEN first
             ELSE IF backwards THEN search_backward(w, Len(w.text))
             ELSE search_forward(w, 0)
        w1 == [w EXCEPT !.searches = IF first.found THEN 1 ELSE 2]
    IN IF ~m.found THEN buffer_select_range(w1, w1.ins, w1.ins)
       ELSE buffer_select_range(w1, m.ms, m.me)

search_find_next(w, backwards) ==
    LET first == IF backwards THEN search_backward(w, w.ins)
                 ELSE search_forward(w, w.ins)
        m == IF first.found THEN first
             ELSE IF backwards THEN search_backward(w, Len(w.text))
             ELSE search_forward(w, 0)
        w1 == [w EXCEPT !.searches = IF first.found THEN 1 ELSE 2]
    IN IF ~m.found THEN w1 ELSE buffer_select_range(w1, m.ms, m.me)

\* update_search_from_dialog: the Find entry becomes the search text
update_search_from_dialog(w, f) == [w EXCEPT !.search_text = f]

\* the Find dialog's response; any response but OK closes the dialog
s_on_find_dialog_response(w, resp, f) ==
    IF resp = "OK" THEN search_find_next(update_search_from_dialog(w, f), FALSE)
    ELSE w

\* a key pressed with Control held: g finds the next match, G the previous one
s_on_key_press(w, keyval) ==
    IF keyval = "g" THEN search_find_next(w, FALSE)
    ELSE IF keyval = "G" THEN search_find_next(w, TRUE)
    ELSE w

\* search_replace_one that inserts at the cursor when nothing is selected
search_replace_one_inserts(w, repl) ==
    LET w1 == IF has_selection(w) THEN w ELSE search_find_next(w, FALSE)
        s == sel_start(w1)
    IN buffer_insert(buffer_delete(w1, s, sel_end(w1)), s, repl)

search_replace_one(w, repl) ==
    LET w1 == IF has_selection(w) THEN w ELSE search_find_next(w, FALSE)
    IN IF ~has_selection(w1) THEN w1
       ELSE LET s == sel_start(w1)
                w2 == buffer_delete(w1, s, sel_end(w1))
            IN buffer_insert(w2, s, repl)

\* the loop of search_replace_all, from the scan position iter
RECURSIVE replace_all_from(_, _, _)
replace_all_from(w, iter, repl) ==
    LET m == search_forward(w, iter)
    IN IF ~m.found THEN w
       ELSE LET w1 == buffer_delete(w, m.ms, m.me)
                w2 == [buffer_insert(w1, m.ms, repl) EXCEPT !.count = w.count + 1]
                \* mstart is now after the inserted text
                mstart == m.ms + Len(repl)
                \* gtk_text_iter_forward_chars stops at the end of the buffer
                next == Min(mstart + Len(repl), Len(w2.text))
            IN replace_all_from(w2, next, repl)

\* a loop that searches again from the start of what it inserted, for at
\* most fuel rounds
RECURSIVE replace_all_rescan(_, _, _, _)
replace_all_rescan(w, iter, repl, fuel) ==
    LET m == search_forward(w, iter)
    IN IF ~m.found \/ fuel = 0 THEN w
       ELSE LET w1 == buffer_delete(w, m.ms, m.me)
                w2 == [buffer_insert(w1, m.ms, repl) EXCEPT !.count = w.count + 1]
            IN replace_all_rescan(w2, m.ms, repl, fuel - 1)

search_replace_all_rescan(w, repl) == replace_all_rescan(w, 0, repl, 2 * Len(w.text) + 2)

search_replace_all(w, repl) == replace_all_from(w, 0, repl)

\* the Replace dialog's response: f and r are the two entries
s_on_replace_dialog_response(w, resp, f, r) ==
    LET w1 == [w EXCEPT !.search_text = f, !.repl = r]
    IN IF resp = "ACCEPT" THEN search_replace_one(search_find_next(w1, FALSE), r)
       ELSE IF resp = "APPLY" THEN search_replace_all(w1, r)
       ELSE w1

----------------------------------------------------------------------------
(* Initial state: the Editor constructed by on_activate or on_open          *)

\* a file of the initial file system
InitBytes == ExtTexts \cup {NOENT}

Init ==
    /\ started = FALSE
    /\ text = <<>>
    /\ mark_insert = 0
    /\ mark_selection_bound = 0
    /\ current_file_ \in Paths \cup {""}      \* load_session: last_file
    /\ modified_ = FALSE
    /\ file_monitor_ = nullptr
    /\ file_mtime_utc_us_ = 0
    /\ suppress_monitor_once_ = FALSE
    /\ opened_via_cli_ = FALSE
    /\ trim_ws_on_save_ = TRUE                \* the defaults of editor.h
    /\ ensure_newline_eof_ = TRUE
    /\ search_text = <<>>
    /\ \E d \in {dd \in [Paths -> InitBytes] : \A p \in ReadOnlyPaths : dd[p] # NOENT} :
          /\ disk = [f \in Files |-> IF f \in Paths THEN d[f] ELSE NOENT]
          /\ mtime = [p \in Paths |-> IF d[p] = NOENT THEN 0 ELSE 1]
    /\ armed_by = "none"
    /\ last = [op |-> "init", ev |-> "none", asked |-> <<>>, io |-> "none", rec |-> "none",
               bak |-> "none", from |-> 0, bound |-> 0, searches |-> 0, count |-> 0, repl |-> <<>>,
               retired |-> "",
               armed |-> "none", after_suppressed |-> "none"]

----------------------------------------------------------------------------
(* Actions: one per handler *)

\* the inputs of a handler: the user's answers to its prompts, the file the
\* user picks, the outcome of its system calls, and the clock
NoInput ==
    [ans |-> <<TRUE, TRUE>>, choice |-> nullptr, readOk |-> TRUE, monOk |-> TRUE,
     writeOk |-> TRUE, bak |-> "ok", now |-> 1]

\* the outcomes of the backup the model draws
BackupOutcomes == {"ok", "dst_fail"}

\* the answers the user may give to the prompts of a handler that shows at most
\* n of them: a handler stops at the first prompt the user declines
Answers(n) == {a \in BOOLEAN \X BOOLEAN : /\ \A i \in 1..2 : i > n => a[i]
                                          /\ ~a[1] => a[2]}

\* the outcomes of g_file_set_contents on path: only a file of WritablePaths
\* can be written
WriteOutcomes(path) == IF path \in WritablePaths THEN BOOLEAN ELSE {FALSE}

\* the outcomes of g_file_get_contents and g_file_monitor_file: <<readOk, monOk>>
ReadOutcomes == {<<FALSE, TRUE>>, <<TRUE, FALSE>>, <<TRUE, TRUE>>}

\* the handlers that do nothing but search_find_next
FindOps == {"find_dialog", "key_press"}
\* the responses of the Replace dialog: Replace and Replace All
DialogReplaceOps == {"ACCEPT", "APPLY"}

\* the handler op, run on event ev, leaves the world w
Commit(w, op, ev) ==
    /\ text' = w.text
    /\ mark_insert' = w.ins
    /\ mark_selection_bound' = w.bound
    /\ current_file_' = w.current_file_
    /\ modified_' = w.modified_
    /\ file_monitor_' = w.file_monitor_
    /\ file_mtime_utc_us_' = w.file_mtime_utc_us_
    /\ suppress_monitor_once_' = w.suppress_monitor_once_
    /\ opened_via_cli_' = w.opened_via_cli_
    /\ search_text' = w.search_text
    /\ disk' = w.disk
    /\ mtime' = w.mtime
    /\ armed_by' = IF ~w.suppress_monitor_once_ THEN "none"
                   ELSE IF op \in {"save_file", "save_file_as"} /\ w.io = "saved" THEN "save"
                   ELSE IF op \in {"save_file", "save_file_as"} /\ w.io = "ioerror"
                        THEN "failed_save"
                   ELSE IF w.io = "loaded" THEN "open"
                   ELSE armed_by
    /\ last' = [op |-> op, ev |-> ev, asked |-> w.asked, io |-> w.io, rec |-> w.rec,
                bak |-> w.bak,
                \* of a find: where the cursor was, and the searches it made
                from |-> IF op \in FindOps \cup DialogReplaceOps THEN mark_insert ELSE 0,
                searches |-> IF op \in FindOps THEN w.searches ELSE 0,
                \* of a replace: where the selection bound was, and the count of
                \* search_replace_all
                bound |-> IF op \in DialogReplaceOps THEN mark_selection_bound ELSE 0,
                count |-> IF op = "APPLY" THEN w.count ELSE 0,
                repl |-> IF op \in DialogReplaceOps THEN w.repl ELSE <<>>,
                \* the path of the watch this step retired, for none or for a watch
                \* on another path
                retired |-> IF w.file_monitor_ # file_monitor_ THEN file_monitor_ ELSE "",
                \* of a file-monitor event: what had set the suppression it met, and,
                \* when the step before it was an event that consumed a suppression,
                \* what had set that one
                armed |-> IF op = "monitor" THEN armed_by ELSE "none",
                after_suppressed |-> IF op = "monitor" /\ last.op = "monitor"
                                        /\ last.rec = "suppressed"
                                     THEN last.armed ELSE "none"]
    /\ UNCHANGED <<trim_ws_on_save_, ensure_newline_eof_>>

\* the window was closed and the application has ended
Closed == last.io = "closed"

Activate ==
    /\ ~started /\ ~Closed
    /\ started' = TRUE
    /\ Commit(World, "on_activate", "none")

OnOpen ==
    /\ ~started /\ ~Closed
    /\ started' = TRUE
    /\ \E path \in Paths, r \in ReadOutcomes :
          Commit(on_open(World, path, [NoInput EXCEPT !.readOk = r[1], !.monOk = r[2]]),
                 "on_open", "none")

Quit ==
    /\ started
    /\ \E ans \in Answers(IF modified_ THEN 1 ELSE 0) :
          LET w == s_on_quit_activate(World, [NoInput EXCEPT !.ans = ans])
          IN /\ Commit(w, "quit", "none")
             /\ started' = (w.io # "closed")

NewFile ==
    /\ started
    /\ \E ans \in Answers(IF modified_ THEN 1 ELSE 0) :
          Commit(new_file(World, [NoInput EXCEPT !.ans = ans]), "new_file", "none")
    /\ UNCHANGED started

OpenFile ==
    /\ started
    /\ \E ans \in Answers(IF modified_ THEN 2 ELSE 0), choice \in Paths \cup {nullptr} :
       \E r \in IF choice = nullptr \/ ~ans[1] THEN {<<TRUE, TRUE>>} ELSE ReadOutcomes :
          Commit(open_file(World, [NoInput EXCEPT !.ans = ans, !.choice = choice,
                                                  !.readOk = r[1], !.monOk = r[2]]),
                 "open_file", "none")
    /\ UNCHANGED started

OpenRecent ==
    /\ started
    /\ \E path \in Paths, r \in ReadOutcomes :
          Commit(s_on_recent_activated(World, path,
                     [NoInput EXCEPT !.readOk = r[1], !.monOk = r[2]]),
                 "recent", "none")
    /\ UNCHANGED started

Reload ==
    /\ started
    /\ \E ans \in Answers(IF modified_ THEN 2 ELSE 0) :
       \E r \in IF current_file_ = "" \/ ~ans[1] THEN {<<TRUE, TRUE>>} ELSE ReadOutcomes :
          Commit(s_on_reload_activate(World,
                     [NoInput EXCEPT !.ans = ans, !.readOk = r[1], !.monOk = r[2]]),
                 "reload", "none")
    /\ UNCHANGED started

Save ==
    /\ started
    /\ \E choice \in IF current_file_ = "" THEN Paths \cup {nullptr} ELSE {current_file_} :
       \E writeOk \in WriteOutcomes(choice),
          bak \in IF current_file_ \in WritablePaths /\ disk[current_file_] # NOENT
                  THEN BackupOutcomes ELSE {"dst_fail"} :
       \E now \in IF writeOk THEN 1..MaxMtime ELSE {1},
          monOk \in IF current_file_ = "" /\ writeOk THEN BOOLEAN ELSE {TRUE} :
          Commit(save_file(World, [NoInput EXCEPT !.choice = choice, !.writeOk = writeOk,
                                                  !.monOk = monOk, !.bak = bak, !.now = now]),
                 "save_file", "none")
    /\ UNCHANGED started

SaveAs ==
    /\ started
    /\ \E choice \in Paths \cup {nullptr} :
       \E writeOk \in WriteOutcomes(choice) :
       \E now \in IF writeOk THEN 1..MaxMtime ELSE {1},
          monOk \in IF writeOk THEN BOOLEAN ELSE {TRUE} :
          Commit(save_file_as(World, [NoInput EXCEPT !.choice = choice, !.writeOk = writeOk,
                                                     !.monOk = monOk, !.now = now]),
                 "save_file_as", "none")
    /\ UNCHANGED started

\* the "changed" signal of file_monitor_
FileMonitorChanged ==
    /\ started
    /\ file_monitor_ # nullptr
    /\ \E ev \in MonitorEvents :
       \E ans \in Answers(IF modified_ /\ ~suppress_monitor_once_ /\ ev \in ActedEvents
                          THEN 2 ELSE 0) :
       \E r \in IF suppress_monitor_once_ \/ ev \notin ActedEvents \/ ~ans[1]
                THEN {<<TRUE, TRUE>>} ELSE ReadOutcomes :
          Commit(s_on_file_monitor_changed(World, ev,
                     [NoInput EXCEPT !.ans = ans, !.readOk = r[1], !.monOk = r[2]]),
                 "monitor", ev)
    /\ UNCHANGED started

KeyInsert ==
    /\ started
    /\ Len(text) < MaxLen
    /\ \E c \in TypeChars : Commit(key_insert(World, c), "key_insert", "none")
    /\ UNCHANGED started

KeyBackspace ==
    /\ started
    /\ Commit(key_backspace(World), "key_backspace", "none")
    /\ UNCHANGED started

Cut ==
    /\ started
    /\ Commit(cut(World), "cut", "none")
    /\ UNCHANGED started

Paste ==
    /\ started
    /\ \E clip \in ClipTexts :
          /\ Len(text) + Len(clip) <= MaxLen
          /\ Commit(paste(World, clip), "paste", "none")
    /\ UNCHANGED started

SelectAll ==
    /\ started
    /\ Commit(select_all(World), "select_all", "none")
    /\ UNCHANGED started

ReplaceDialogResponse ==
    /\ started
    /\ \E resp \in {"ACCEPT", "APPLY"}, f \in Patterns, r \in Replacements :
          Commit(s_on_replace_dialog_response(World, resp, f, r), resp, "none")
    /\ UNCHANGED started

\* another program writes a file
ExternalWrite ==
    /\ ~Closed
    /\ \E p \in WritablePaths, bytes \in ExtTexts, m \in 1..MaxMtime :
          Commit([World EXCEPT !.disk[p] = bytes, !.mtime[p] = m], "external", "none")
    /\ UNCHANGED started

\* another program deletes a file
ExternalDelete ==
    /\ ~Closed
    /\ \E p \in WritablePaths :
          /\ disk[p] # NOENT
          /\ Commit([World EXCEPT !.disk[p] = NOENT, !.mtime[p] = 0], "external", "none")
    /\ UNCHANGED started

Next ==
    \/ Activate
    \/ OnOpen
    \/ NewFile
    \/ OpenFile
    \/ OpenRecent
    \/ Reload
    \/ Save
    \/ SaveAs
    \/ FileMonitorChanged
    \/ KeyInsert
    \/ KeyBackspace
    \/ ExternalWrite
    \/ ExternalDelete

Spec == Init /\ [][Next]_vars

\* the handlers that may ask the user, Quit among them, with the typing, the
\* saving and the external writes that bring the document into each state of
\* the dirty flag and of the watch
NextPrompts ==
    \/ Activate
    \/ OnOpen
    \/ NewFile
    \/ OpenFile
    \/ OpenRecent
    \/ Reload
    \/ Quit
    \/ Save
    \/ FileMonitorChanged
    \/ KeyInsert
    \/ KeyBackspace
    \/ ExternalWrite

SpecPrompts == Init /\ [][NextPrompts]_vars

\* editing, search and replace, and saving what was edited
NextEdit ==
    \/ Activate
    \/ OnOpen
    \/ KeyInsert
    \/ KeyBackspace
    \/ Cut
    \/ Paste
    \/ SelectAll
    \/ ReplaceDialogResponse
    \/ Save
    \/ SaveAs

SpecEdit == Init /\ [][NextEdit]_vars

----------------------------------------------------------------------------
(* Saving texts of several lines under each setting of the two preferences *)

\* the texts of at most n characters of FixChars
FixTexts(n) == UNION {[1..k -> FixChars] : k \in 0..n}

\* the document named p holds a text not yet saved; p does not exist
InitFixes ==
    /\ started = TRUE
    /\ text \in FixTexts(MaxFixLen) \cup {TrimExample}
    /\ mark_insert = Len(text)
    /\ mark_selection_bound = Len(text)
    /\ current_file_ \in WritablePaths
    /\ modified_ = TRUE
    /\ file_monitor_ = nullptr
    /\ file_mtime_utc_us_ = 0
    /\ suppress_monitor_once_ = FALSE
    /\ opened_via_cli_ = FALSE
    /\ trim_ws_on_save_ \in BOOLEAN           \* load_config: prefs
    /\ ensure_newline_eof_ \in BOOLEAN
    /\ search_text = <<>>
    /\ disk = [f \in Files |-> IF f \in ReadOnlyPaths THEN <<"x">> ELSE NOENT]
    /\ mtime = [p \in Paths |-> IF p \in ReadOnlyPaths THEN 1 ELSE 0]
    /\ armed_by = "none"
    /\ last = [op |-> "init", ev |-> "none", asked |-> <<>>, io |-> "none", rec |-> "none",
               bak |-> "none", from |-> 0, bound |-> 0, searches |-> 0, count |-> 0, repl |-> <<>>,
               retired |-> "",
               armed |-> "none", after_suppressed |-> "none"]

\* what a handler that touches neither the document nor the files leaves
Untouched(op) ==
    /\ last' = [op |-> op, ev |-> "none", asked |-> <<>>, io |-> "none", rec |-> "none",
                bak |-> "none", from |-> 0, bound |-> 0, searches |-> 0, count |-> 0, repl |-> <<>>,
               retired |-> "",
                armed |-> "none", after_suppressed |-> "none"]
    /\ UNCHANGED <<started, text, mark_insert, mark_selection_bound, current_file_,
                   modified_, file_monitor_, file_mtime_utc_us_, suppress_monitor_once_,
                   opened_via_cli_, search_text, disk, mtime, armed_by>>

\* the check menu item "Trim trailing whitespace on save"
ToggleTrimWs ==
    /\ started
    /\ trim_ws_on_save_' = ~trim_ws_on_save_
    /\ UNCHANGED ensure_newline_eof_
    /\ Untouched("toggle_trim_ws")

\* the check menu item "Ensure newline at end of file"
ToggleEofNl ==
    /\ started
    /\ ensure_newline_eof_' = ~ensure_newline_eof_
    /\ UNCHANGED trim_ws_on_save_
    /\ Untouched("toggle_eof_nl")

NextFixes ==
    \/ Save
    \/ Reload
    \/ ToggleTrimWs
    \/ ToggleEofNl

SpecFixes == InitFixes /\ [][NextFixes]_vars

----------------------------------------------------------------------------
(* Searching texts that hold several occurrences of a pattern *)

\* the texts of at most n characters of SearchChars
SearchTexts(n) == UNION {[1..k -> SearchChars] : k \in 0..n}

\* an untitled document holds a text, the cursor is at some offset, nothing
\* has been searched for yet
InitSearch ==
    /\ started = TRUE
    /\ text \in SearchTexts(MaxSearchLen) \cup {HelloText}
    /\ mark_insert \in 0..Len(text)
    /\ mark_selection_bound = mark_insert
    /\ current_file_ = ""
    /\ modified_ \in BOOLEAN
    /\ file_monitor_ = nullptr
    /\ file_mtime_utc_us_ = 0
    /\ suppress_monitor_once_ = FALSE
    /\ opened_via_cli_ = FALSE
    /\ trim_ws_on_save_ = TRUE
    /\ ensure_newline_eof_ = TRUE
    /\ search_text = <<>>
    /\ disk = [f \in Files |-> IF f \in ReadOnlyPaths THEN <<"x">> ELSE NOENT]
    /\ mtime = [p \in Paths |-> IF p \in ReadOnlyPaths THEN 1 ELSE 0]
    /\ armed_by = "none"
    /\ last = [op |-> "init", ev |-> "none", asked |-> <<>>, io |-> "none", rec |-> "none",
               bak |-> "none", from |-> 0, bound |-> 0, searches |-> 0, count |-> 0, repl |-> <<>>,
               retired |-> "",
               armed |-> "none", after_suppressed |-> "none"]

\* the user presses Find in the Find dialog
FindDialogResponse ==
    /\ started
    /\ \E f \in FindPatterns :
          Commit(s_on_find_dialog_response(World, "OK", f), "find_dialog", "none")
    /\ UNCHANGED started

\* Ctrl+g and Ctrl+Shift+g
KeyPress ==
    /\ started
    /\ \E keyval \in {"g", "G"} :
          Commit(s_on_key_press(World, keyval), "key_press", keyval)
    /\ UNCHANGED started

\* the text view places the cursor where the user clicks
MoveCursor ==
    /\ started
    /\ \E k \in 0..Len(text) :
          Commit(buffer_select_range(World, k, k), "move_cursor", "none")
    /\ UNCHANGED started

NextSearch ==
    \/ FindDialogResponse
    \/ KeyPress
    \/ MoveCursor

SpecSearch == InitSearch /\ [][NextSearch]_vars

----------------------------------------------------------------------------
(* Replacing in texts that hold several occurrences of a pattern *)

\* the texts of at most n characters of ReplaceChars
ReplaceTexts(n) == UNION {[1..k -> ReplaceChars] : k \in 0..n}

\* an untitled document holds a text, with the cursor at some offset
InitReplace ==
    /\ started = TRUE
    /\ text \in ReplaceTexts(MaxReplaceLen)
    /\ mark_insert \in 0..Len(text)
    /\ mark_selection_bound = mark_insert
    /\ current_file_ = ""
    /\ modified_ \in BOOLEAN
    /\ file_monitor_ = nullptr
    /\ file_mtime_utc_us_ = 0
    /\ suppress_monitor_once_ = FALSE
    /\ opened_via_cli_ = FALSE
    /\ trim_ws_on_save_ = TRUE
    /\ ensure_newline_eof_ = TRUE
    /\ search_text = <<>>
    /\ disk = [f \in Files |-> IF f \in ReadOnlyPaths THEN <<"x">> ELSE NOENT]
    /\ mtime = [p \in Paths |-> IF p \in ReadOnlyPaths THEN 1 ELSE 0]
    /\ armed_by = "none"
    /\ last = [op |-> "init", ev |-> "none", asked |-> <<>>, io |-> "none", rec |-> "none",
               bak |-> "none", from |-> 0, bound |-> 0, searches |-> 0, count |-> 0, repl |-> <<>>,
               retired |-> "",
               armed |-> "none", after_suppressed |-> "none"]

\* Replace and Replace All in the Replace dialog, on a text that has not
\* outgrown the bound
ReplaceResponse ==
    /\ started
    /\ Len(text) <= MaxReplaceLen
    /\ \E resp \in DialogReplaceOps, f \in ReplacePatterns, r \in ReplaceStrings :
          Commit(s_on_replace_dialog_response(World, resp, f, r), resp, "none")
    /\ UNCHANGED started

\* the text view selects what the user drags over: the cursor is at either end
SelectRange ==
    /\ started
    /\ \E i \in 0..Len(text), b \in 0..Len(text) :
          /\ i # b
          /\ Commit(buffer_select_range(World, i, b), "select_range", "none")
    /\ UNCHANGED started

NextReplace ==
    \/ ReplaceResponse
    \/ SelectRange
    \/ MoveCursor

SpecReplace == InitReplace /\ [][NextReplace]_vars

----------------------------------------------------------------------------
(* Searching, then opening or reloading a file *)

NextSearchOpen ==
    \/ Activate
    \/ OnOpen
    \/ KeyInsert
    \/ FindDialogResponse
    \/ KeyPress
    \/ ReplaceDialogResponse
    \/ OpenFile
    \/ Reload

SpecSearchOpen == Init /\ [][NextSearchOpen]_vars

----------------------------------------------------------------------------
(* Properties *)

\* the handlers that replace the buffer text wholesale
ReplacingOps == {"new_file", "open_file", "recent", "on_open", "reload", "monitor"}

\* the handler that has just run showed a prompt the user accepted
AcceptedPrompt(l) == \E i \in 1..Len(l.asked) : l.asked[i][2]

\* C1: unsaved work is never silently destroyed.  When the document is dirty
\* and a handler that replaces the text wholesale (new, open dialog, open
\* recent, command-line open, reload, external-change reload) runs without
\* the user accepting a prompt, the text and the dirty flag stay as they were.
\* The code breaks it: s_on_recent_activated sets opened_via_cli_, so
\* open_file_from_path skips maybe_confirm_discard.
C1_NoSilentDiscard ==
    [][(modified_ /\ last'.op \in ReplacingOps /\ ~AcceptedPrompt(last'))
         => (text' = text /\ modified_' = modified_)]_vars

\* the reconciler is Watching(current_file_, file_mtime_utc_us_), no suppression
\* pending
Watching == file_monitor_ # nullptr /\ ~suppress_monitor_once_

\* the mtime a notification arriving now observes
ObservedMtime == get_file_mtime_us(World, current_file_)

\* this step is the file-monitor handler run on a change notification (an
\* event of one of the types the handler acts on)
ChangeNotification == last'.op = "monitor" /\ last'.ev \in ActedEvents

\* this step loaded the buffer from the file
Reloaded == last'.io \in {"loaded", "created"}

\* C2: Watching(path, m0), dirty document, a change notification observing m1
\* with m1 # m0 and m1 # 0: the change is detected (lastMtime becomes m1), the
\* first thing the handler does is ask the reload confirmation, and the buffer
\* is reloaded, or changed at all, only if the user accepted it.
C2_DirtyReloadOnlyAfterConfirm ==
    [][(ChangeNotification /\ Watching /\ modified_
        /\ ObservedMtime # 0 /\ ObservedMtime # file_mtime_utc_us_)
         => /\ last'.rec = "detected"
            /\ file_mtime_utc_us_' = ObservedMtime
            /\ Len(last'.asked) >= 1
            /\ last'.asked[1][1] = "reload"
            /\ (Reloaded \/ text' # text \/ modified_' # modified_)
                   => last'.asked[1][2]]_vars

\* a dirty document was reloaded after the user accepted the reload confirmation
C2_Witness ==
    /\ last.op = "monitor"
    /\ last.rec = "detected"
    /\ Len(last.asked) >= 1
    /\ last.asked[1] = <<"reload", TRUE>>
    /\ last.io = "loaded"
    /\ ~modified_

\* a change notification met by Watching and a clean document, observing an
\* mtime that is neither 0 nor lastMtime
CleanChangeDetected ==
    /\ ChangeNotification
    /\ Watching
    /\ ~modified_
    /\ ObservedMtime # 0
    /\ ObservedMtime # file_mtime_utc_us_

\* C3 as stated: Watching, clean document, a change notification observing a
\* non-zero mtime other than lastMtime: no prompt, and afterwards the text is
\* the file's content on disk and dirty is false.  It fails when the file
\* cannot be read (g_file_get_contents fails with an error other than NOENT):
\* the buffer keeps the old text.
C3_CleanReloadAlways ==
    [][CleanChangeDetected
         => /\ last'.asked = <<>>
            /\ text' = disk'[current_file_']
            /\ ~modified_']_vars

\* C3 amended: no prompt in any case; if the file can be read the text is its
\* content on disk and dirty is false; if it cannot, the text is left as it
\* was, still clean, and only lastMtime has moved to the observed mtime.
C3_CleanReloadIfReadable ==
    [][CleanChangeDetected
         => /\ last'.asked = <<>>
            /\ last'.rec = "detected"
            /\ file_mtime_utc_us_' = ObservedMtime
            /\ ~modified_'
            /\ current_file_' = current_file_
            /\ last'.io \in {"loaded", "ioerror"}
            /\ last'.io = "loaded" => text' = disk'[current_file_']
            /\ last'.io = "ioerror" => text' = text]_vars

\* a clean document was reloaded without a prompt, and its text changed
C3_Witness ==
    /\ last.op = "monitor"
    /\ last.rec = "detected"
    /\ last.asked = <<>>
    /\ last.io = "loaded"
    /\ text = disk[current_file_]
    /\ text # <<>>
    /\ ~modified_

\* the monitor was installed by a successful load, and since that load the
\* editor has neither saved nor handled a notification
WatchingSinceOpen == file_monitor_ # nullptr /\ armed_by = "open"

\* C4: a successful open or reload leaves the reconciler in
\* Watching(path, currentMtime(path)) with no suppression pending, and the
\* first change notification after it that observes a non-zero mtime other
\* than lastMtime is detected, not ignored.  The code breaks both halves:
\* open_file_from_path sets suppress_monitor_once_ on every successful read,
\* and the handler consumes it on the first notification.
C4_OpenStartsWatching ==
    [][/\ (last'.io = "loaded" /\ file_monitor_' # nullptr)
            => /\ ~suppress_monitor_once_'
               /\ file_monitor_' = current_file_'
               /\ file_mtime_utc_us_' = mtime'[current_file_']
       /\ (ChangeNotification /\ WatchingSinceOpen
           /\ ObservedMtime # 0 /\ ObservedMtime # file_mtime_utc_us_)
            => last'.rec = "detected"]_vars

\* this step is a save or save-as that wrote the file
OwnWrite == last'.op \in {"save_file", "save_file_as"} /\ last'.io = "saved"

\* the editor wrote the watched file, and has handled no notification since
WatchingAfterOwnWrite == file_monitor_ # nullptr /\ armed_by = "save"

\* what Ignore leaves alone, whatever the reconciler does with lastMtime
IgnoredKeepingWatch ==
    /\ last'.asked = <<>>
    /\ last'.io = "none"
    /\ text' = text
    /\ modified_' = modified_
    /\ current_file_' = current_file_
    /\ file_monitor_' = file_monitor_

C6_SuppressionOneShot ==
    [][/\ OwnWrite => suppress_monitor_once_'
       /\ (last'.op = "monitor" /\ file_monitor_ # nullptr /\ suppress_monitor_once_)
            => /\ last'.rec = "suppressed"
               /\ ~suppress_monitor_once_'
       /\ (last'.op = "monitor" /\ Watching) => last'.rec # "suppressed"
       /\ (ChangeNotification /\ Watching
           /\ ObservedMtime # 0 /\ ObservedMtime # file_mtime_utc_us_)
            => last'.rec = "detected"]_vars

\* two notifications in a row after an own write: the first was ignored on
\* account of the suppression, the second was detected
C6_Witness ==
    /\ last.op = "monitor"
    /\ last.after_suppressed = "save"
    /\ last.rec = "detected"

\* C7: Watching, no suppression pending, and a notification (of any event
\* type) that observes mtime 0 (the file cannot be queried) or lastMtime:
\* it is ignored, with no reload and no prompt; lastMtime, text and dirty are
\* unchanged and the watch on the path stays installed.
C7_NoChangeIgnored ==
    [][(last'.op = "monitor" /\ Watching
        /\ (ObservedMtime = 0 \/ ObservedMtime = file_mtime_utc_us_))
         => /\ last'.rec \in {"nostat", "same", "othertype"}
            /\ IgnoredKeepingWatch
            /\ file_mtime_utc_us_' = file_mtime_utc_us_
            /\ ~suppress_monitor_once_'
            /\ Watching']_vars

\* a change notification for a watched file that had been deleted was ignored,
\* and the watch is still there
C7_Witness ==
    /\ last.op = "monitor"
    /\ last.rec = "nostat"
    /\ ObservedMtime = 0
    /\ file_mtime_utc_us_ # 0
    /\ Watching

\* what a file holds for a reader: nothing when it does not exist
FileContent(f) == IF disk[f] = NOENT THEN <<>> ELSE disk[f]

\* the states in which the file on disk is what the editor last loaded or
\* saved: right after start-up, and right after a handler that made a new
\* document, loaded the file or wrote it
JustPersisted ==
    /\ started
    /\ \/ last.op = "on_activate"
       \/ last.io \in {"new", "loaded", "created", "saved"}

\* C8: the Document invariant.  When dirty is false the text is the last
\* persisted content of filePath, or filePath is empty and the text is empty.
\* Stated for the states in which the last persisted content is what the
\* file holds.  The code breaks it at start-up (load_session restores
\* current_file_ without loading the file) and on save (the file gets the
\* text after apply_save_fixes, the buffer keeps the text before them).
C8_CleanTextIsPersisted ==
    (JustPersisted /\ ~modified_)
        => IF current_file_ = "" THEN text = <<>>
           ELSE text = FileContent(current_file_)

\* the handlers that edit the text
EditOps == {"key_insert", "key_backspace", "cut", "paste", "ACCEPT", "APPLY"}

\* the pattern p occurs in the text t
HasMatch(t, p) == \E i \in 0..Len(t) : match_at(t, p, i)

\* this step is a save or save-as
SaveStep == last'.op \in {"save_file", "save_file_as"}

\* C9: the life of the dirty flag.  An edit (typing, BackSpace, cut, paste,
\* replace one, replace all) that changes the text leaves dirty true; so does
\* a replace-one or replace-all that finds an occurrence to replace, even when
\* the replacement is the text it replaces; a save or save-as that wrote the
\* file leaves dirty false; one that failed or was cancelled leaves dirty as
\* it was.
C9_DirtyLifecycle ==
    [][/\ (last'.op \in EditOps /\ text' # text) => modified_'
       /\ (last'.op \in {"ACCEPT", "APPLY"} /\ HasMatch(text, search_text'))
            => modified_'
       /\ (SaveStep /\ last'.io = "saved") => ~modified_'
       /\ (SaveStep /\ last'.io # "saved")
            => /\ last'.io \in {"ioerror", "cancelled"}
               /\ modified_' = modified_]_vars

\* replace-all has just emptied a document that had been saved with the text
\* "a": it is dirty again
C9_Witness ==
    /\ last.op = "APPLY"
    /\ search_text = <<"a">>
    /\ text = <<>>
    /\ current_file_ # ""
    /\ disk[current_file_] = <<"a", "\n">>
    /\ modified_

\* C10: an open, save or save-as that fails with an I/O error (on open: an
\* error other than "no such file") leaves text, filePath, dirty and
\* lastKnownMtime as they were before it.  For the open made by the
\* file-monitor handler, "before it" is after the handler recorded the mtime
\* it observed.
C10_FailedIoLeavesDocument ==
    [][last'.io = "ioerror"
         => /\ text' = text
            /\ current_file_' = current_file_
            /\ modified_' = modified_
            /\ file_mtime_utc_us_' =
                   IF last'.rec = "detected" THEN ObservedMtime ELSE file_mtime_utc_us_
            /\ file_monitor_' = file_monitor_]_vars

\* the user accepted to discard a dirty document for a file that then could
\* not be read: the document is still there, still dirty
C10_Witness ==
    /\ last.op = "open_file"
    /\ last.io = "ioerror"
    /\ AcceptedPrompt(last)
    /\ modified_
    /\ text # <<>>

\* C11: opening a path that does not exist is not an error.  The handler
\* ends with an empty document named after the path, not dirty, and no
\* monitor installed; and an open that replaced the document found the file
\* missing exactly when it took this branch.
C11_MissingFileOpensEmpty ==
    [][/\ last'.io = "created"
            => /\ current_file_' \in Paths
               /\ disk[current_file_'] = NOENT
               /\ text' = <<>>
               /\ ~modified_'
               /\ file_monitor_' = nullptr
       /\ last'.io = "loaded" => disk[current_file_'] # NOENT]_vars

\* after the discard prompt, a dirty document was replaced by the empty
\* document of a file that does not exist
C11_Witness ==
    /\ last.op = "open_file"
    /\ last.io = "created"
    /\ AcceptedPrompt(last)
    /\ current_file_ # ""
    /\ disk[current_file_] = NOENT
    /\ text = <<>>
    /\ ~modified_
    /\ file_monitor_ = nullptr

\* C12: backup on save.  A save or save-as that overwrites an existing file
\* leaves <path>.bak holding the bytes the file had before the save, unless
\* the backup could not be written, which does not fail the save.  The code
\* breaks it: save_file_as writes the file without making a backup.
C12_BackupBeforeOverwrite ==
    [][(OwnWrite /\ disk[current_file_'] # NOENT /\ last'.bak # "dst_fail")
         => disk'[make_backup_path(current_file_')] = disk[current_file_']]_vars

----------------------------------------------------------------------------
(* Save-time fixes, checked on the bytes a successful save writes *)

\* the bytes the save of this step wrote
Written == disk'[current_file_']

\* a successful save under the given setting of the two preferences
SavedWith(trim, ensure) ==
    OwnWrite /\ trim_ws_on_save_ = trim /\ ensure_newline_eof_ = ensure

NewlineCount(t) == Cardinality({i \in 1..Len(t) : t[i] = "\n"})

\* the lines of a text: the pieces between its "\n" separators, one more than
\* there are separators
RECURSIVE SplitLines(_)
SplitLines(t) ==
    LET nl == {i \in 1..Len(t) : t[i] = "\n"}
    IN IF nl = {} THEN <<t>>
       ELSE LET i == CHOOSE k \in nl : \A j \in nl : k <= j
            IN <<SubSeq(t, 1, i - 1)>> \o SplitLines(SubSeq(t, i + 1, Len(t)))

\* C13: with only "ensure newline at end of file" enabled, a save writes the
\* text with exactly one "\n" appended if the text is non-empty and does not
\* end with "\n", and writes the text unchanged otherwise (the empty text
\* stays empty, a text ending in "\n" gains no second one).
C13_EnsureNewlineOnlyIfNonEmpty ==
    [][SavedWith(FALSE, TRUE)
         => Written = IF text # <<>> /\ text[Len(text)] # "\n"
                      THEN Append(text, "\n") ELSE text]_vars

\* C14: with only "trim trailing whitespace" enabled, the text a save writes
\* has as many "\n" separators as the buffer text, and its i-th line is the
\* i-th line of the buffer without its trailing whitespace.
C14_TrimKeepsLines ==
    [][SavedWith(TRUE, FALSE)
         => /\ NewlineCount(Written) = NewlineCount(text)
            /\ \A i \in 1..(NewlineCount(text) + 1) :
                 SplitLines(Written)[i] = rtrim_copy(SplitLines(text)[i])]_vars

\* C15: with both preferences enabled, what a save writes is a fixed point of
\* the fixes: applying them to the written text gives the written text, i.e.
\* applying them twice to the buffer text gives the same as applying them once.
C15_FixesIdempotent ==
    [][SavedWith(TRUE, TRUE) => apply_save_fixes(Written, TRUE, TRUE) = Written]_vars

\* C16: each fix alone is idempotent: with only ensure-newline enabled, and
\* with only trim enabled, applying the fix to what the save wrote gives what
\* the save wrote.
C16_EachFixIdempotent ==
    [][/\ SavedWith(FALSE, TRUE) => apply_save_fixes(Written, FALSE, TRUE) = Written
       /\ SavedWith(TRUE, FALSE) => apply_save_fixes(Written, TRUE, FALSE) = Written]_vars

----------------------------------------------------------------------------
(* Find next and find previous *)

\* this step ran search_find_next forwards / backwards
ForwardFind == last'.op = "find_dialog" \/ (last'.op = "key_press" /\ last'.ev = "g")
BackwardFind == last'.op = "key_press" /\ last'.ev = "G"

\* the offsets at which the pattern p occurs in t, letters compared case-folded
Occurrences(t, p) == {i \in 0..Len(t) : match_at(t, p, i)}

Leftmost(S) == CHOOSE i \in S : \A j \in S : i <= j
Rightmost(S) == CHOOSE i \in S : \A j \in S : i >= j

\* the selection of the state is the occurrence of p at offset i
Selects(ins, bound, i, p) == Min(ins, bound) = i /\ Max(ins, bound) = i + Len(p)

\* the find of the last step was a forward one
WasForwardFind == last.op = "find_dialog" \/ (last.op = "key_press" /\ last.ev = "g")

\* C17: a forward find with the cursor at offset 0, for a pattern that occurs
\* in the text, selects the leftmost occurrence of the pattern.
C17_ForwardFromStartSelectsLeftmost ==
    [][(ForwardFind /\ mark_insert = 0 /\ Occurrences(text, search_text') # {})
         => Selects(mark_insert', mark_selection_bound',
                    Leftmost(Occurrences(text, search_text')), search_text')]_vars

\* a forward find from offset 0 selected the first of several occurrences,
\* which does not start at offset 0 and is written in the other case
C17_Witness ==
    /\ WasForwardFind /\ last.from = 0
    /\ Cardinality(Occurrences(text, search_text)) >= 2
    /\ Leftmost(Occurrences(text, search_text)) > 0
    /\ Selects(mark_insert, mark_selection_bound,
               Leftmost(Occurrences(text, search_text)), search_text)
    /\ text[mark_insert + 1] # search_text[1]

\* C18: a forward find with no occurrence at or after the cursor, but one
\* before it, makes a second search from the start of the text and selects the
\* leftmost occurrence; a find makes one or two directional searches, never more.
C18_ForwardWrapsOnce ==
    [][/\ (ForwardFind /\ Occurrences(text, search_text') # {}
                       /\ \A i \in Occurrences(text, search_text') : i < mark_insert)
            => /\ last'.searches = 2
               /\ Selects(mark_insert', mark_selection_bound',
                          Leftmost(Occurrences(text, search_text')), search_text')
       /\ (ForwardFind \/ BackwardFind) => last'.searches \in {1, 2}]_vars

\* a forward find started behind every occurrence, searched twice and selected
\* the first of several occurrences
C18_Witness ==
    /\ WasForwardFind /\ last.searches = 2
    /\ Cardinality(Occurrences(text, search_text)) >= 2
    /\ \A i \in Occurrences(text, search_text) : i < last.from
    /\ Selects(mark_insert, mark_selection_bound,
               Leftmost(Occurrences(text, search_text)), search_text)

\* C19: a find, forward or backward, for a pattern that is empty or occurs
\* nowhere in the text changes neither the text, nor the selection, nor the
\* cursor, nor the dirty flag, and shows no prompt or error.
C19_NoMatchChangesNothing ==
    [][((ForwardFind \/ BackwardFind) /\ Occurrences(text, search_text') = {})
         => /\ text' = text
            /\ mark_insert' = mark_insert
            /\ mark_selection_bound' = mark_selection_bound
            /\ modified_' = modified_
            /\ last'.asked = <<>>
            /\ last'.io = "none"]_vars

\* a backward find for a pattern that occurs nowhere in a modified text left
\* the selection made by an earlier find in place, after searching twice
C19_Witness ==
    /\ last.op = "key_press" /\ last.ev = "G" /\ last.searches = 2
    /\ search_text # <<>> /\ Occurrences(text, search_text) = {}
    /\ mark_insert # mark_selection_bound
    /\ modified_

\* C20: a backward find selects the occurrence whose start is the nearest one
\* before the cursor; when no occurrence starts before the cursor it selects
\* the last occurrence of the text.
C20_BackwardSelectsNearestStartBefore ==
    [][(BackwardFind /\ Occurrences(text, search_text') # {})
         => LET occ == Occurrences(text, search_text')
                before == {i \in occ : i < mark_insert}
            IN Selects(mark_insert', mark_selection_bound',
                       IF before # {} THEN Rightmost(before) ELSE Rightmost(occ),
                       search_text')]_vars

\* C20 as the code has it: a backward find selects the occurrence whose end is
\* the nearest one at or before the cursor; when no occurrence ends at or
\* before the cursor it searches once more from the end of the text and
\* selects the last occurrence of the text.
C20_BackwardSelectsNearestEndBefore ==
    [][(BackwardFind /\ Occurrences(text, search_text') # {})
         => LET occ == Occurrences(text, search_text')
                before == {i \in occ : i + Len(search_text') <= mark_insert}
            IN /\ Selects(mark_insert', mark_selection_bound',
                          IF before # {} THEN Rightmost(before) ELSE Rightmost(occ),
                          search_text')
               /\ last'.searches = IF before # {} THEN 1 ELSE 2]_vars

\* a backward find started inside the last of several occurrences and selected
\* the occurrence before it
C20_Witness ==
    /\ last.op = "key_press" /\ last.ev = "G" /\ last.searches = 1
    /\ LET occ == Occurrences(text, search_text)
       IN /\ Cardinality(occ) >= 2
          /\ Rightmost(occ) < last.from
          /\ last.from < Rightmost(occ) + Len(search_text)
          /\ Selects(mark_insert, mark_selection_bound,
                     Rightmost(occ \ {Rightmost(occ)}), search_text)

\* C21: the search ignores the case of letters. In the text "Hello World",
\* "hello again" a forward find for "hello" selects [0,5) from offset 0,
\* [12,17) from offset 5 and, wrapping, [0,5) from offset 17; in every text a
\* forward find selects the first case-folded occurrence at or after the cursor
\* and, when there is none, the first one of the text.
C21_CaseInsensitiveForward ==
    [][ForwardFind =>
         LET p == search_text'
             occ == Occurrences(text, p)
             after == {i \in occ : i >= mark_insert}
             sel(i) == Selects(mark_insert', mark_selection_bound', i, p)
         IN /\ occ # {} => sel(IF after # {} THEN Leftmost(after) ELSE Leftmost(occ))
            /\ (text = HelloText /\ p = <<"h", "e", "l", "l", "o">>)
                 => /\ mark_insert = 0 => sel(0)
                    /\ mark_insert = 5 => sel(12)
                    /\ mark_insert = 17 => sel(0)]_vars

\* a forward find for "hello" from offset 5 of the two-line text selected
\* [12,17), and the word at [0,5) is spelled "Hello"
C21_Witness ==
    /\ WasForwardFind /\ last.from = 5 /\ last.searches = 1
    /\ text = HelloText /\ search_text = <<"h", "e", "l", "l", "o">>
    /\ text[1] = "H" /\ 0 \in Occurrences(text, search_text)
    /\ mark_insert = 12 /\ mark_selection_bound = 17

----------------------------------------------------------------------------
(* Replace and Replace All *)

\* this step ran Replace All / Replace of the Replace dialog
ReplaceAllStep == last'.op = "APPLY"
ReplaceOneStep == last'.op = "ACCEPT"

\* t with its range [a, b) replaced by r
Spliced(t, a, b, r) == Range(t, 0, a) \o r \o Range(t, b, Len(t))

\* every occurrence of p in t at or after from, taken from left to right
\* without overlap, replaced by r, the scan going on right after each r
RECURSIVE ReplacedAll(_, _, _, _)
ReplacedAll(t, p, r, from) ==
    LET occ == {i \in Occurrences(t, p) : i >= from}
    IN IF occ = {} THEN [text |-> t, n |-> 0]
       ELSE LET i == Leftmost(occ)
                rest == ReplacedAll(Spliced(t, i, i + Len(p), r), p, r, i + Len(r))
            IN [text |-> rest.text, n |-> rest.n + 1]

\* C22: Replace All replaces every occurrence of the pattern, from left to
\* right without overlap and without searching in what it inserted, and counts
\* one replacement for each; "aaa" with "a" replaced by "aa" becomes "aaaaaa"
\* with 3 replacements.
C22_ReplaceAllEveryOccurrence ==
    [][ReplaceAllStep =>
         LET all == ReplacedAll(text, search_text', last'.repl, 0)
         IN /\ text' = all.text
            /\ last'.count = all.n
            /\ (text = <<"a", "a", "a">> /\ search_text' = <<"a">>
                  /\ last'.repl = <<"a", "a">>)
                 => /\ text' = <<"a", "a", "a", "a", "a", "a">>
                    /\ last'.count = 3]_vars

\* C23: Replace All ends: its loop makes at most as many replacements as the
\* text has characters, whether the replacement holds the pattern or is empty,
\* and none when the pattern is empty.
C23_ReplaceAllTerminates ==
    [][ReplaceAllStep =>
         /\ last'.count <= Len(text)
         /\ search_text' = <<>> => (last'.count = 0 /\ text' = text)]_vars

\* Replace All ended after replacing a pattern by a text that holds it
C23_Witness ==
    /\ last.op = "APPLY" /\ last.count >= 1
    /\ search_text # <<>>
    /\ Occurrences(last.repl, search_text) # {}
    /\ Occurrences(text, search_text) # {}

\* C24: Replace with a non-empty selection [s, e) deletes exactly that range
\* and inserts the replacement at s: the text before s and after e is the same
\* and no other range is replaced.
C24_ReplaceOneReplacesSelection ==
    [][(ReplaceOneStep /\ mark_insert # mark_selection_bound)
         => text' = Spliced(text, Min(mark_insert, mark_selection_bound),
                            Max(mark_insert, mark_selection_bound), last'.repl)]_vars

\* C25: Replace with nothing selected searches forward from the cursor, once
\* more from the start when it finds nothing, and replaces exactly the match
\* found; when the pattern is empty or occurs nowhere the text, the cursor, the
\* selection and the dirty flag are unchanged.
C25_ReplaceOneFindsFirst ==
    [][(ReplaceOneStep /\ mark_insert = mark_selection_bound) =>
         LET p == search_text'
             occ == Occurrences(text, p)
             after == {i \in occ : i >= mark_insert}
             m == IF after # {} THEN Leftmost(after) ELSE Leftmost(occ)
         IN IF occ = {}
            THEN /\ text' = text
                 /\ mark_insert' = mark_insert
                 /\ mark_selection_bound' = mark_selection_bound
                 /\ modified_' = modified_
            ELSE text' = Spliced(text, m, m + Len(p), last'.repl)]_vars

\* Replace with nothing selected and the cursor behind the only occurrence
\* replaced that occurrence: the replacement stands before the cursor
C25_Witness ==
    /\ last.op = "ACCEPT" /\ last.from = last.bound
    /\ last.repl # <<>> /\ search_text # <<>>
    /\ mark_insert < last.from
    /\ mark_insert = mark_selection_bound
    /\ mark_insert >= Len(last.repl)
    /\ Range(text, mark_insert - Len(last.repl), mark_insert) = last.repl
    /\ Occurrences(text, search_text) = {}
    /\ modified_

----------------------------------------------------------------------------
(* Prompts and the file watch *)

\* C26: a confirmation prompt (discard or reload) is shown only while the
\* document is dirty: a handler that showed one (new, open, open recent,
\* reload, quit, the file-monitor handler) started with modified_ set.
C26_PromptOnlyWhenDirty ==
    [][last'.asked # <<>> => modified_]_vars

\* File > Quit on a dirty document asked, the user declined, and the editor
\* runs on with the document as dirty as before
C26_Witness ==
    /\ last.op = "quit" /\ last.io = "declined"
    /\ last.asked = <<<<"discard", FALSE>>>>
    /\ started /\ modified_ /\ text # <<>>

\* the last step was a change notification that detected an external change on
\* a dirty document, and the user declined the reload
DeclinedExternalReload ==
    /\ last.op = "monitor" /\ last.rec = "detected"
    /\ last.asked = <<<<"reload", FALSE>>>>

\* C27: when an external change is detected on a dirty document and the user
\* declines the reload, the text, the path and the dirty flag are unchanged and
\* lastMtime is the observed mtime; a notification that comes next and observes
\* that same mtime is ignored and shows no prompt.
C27_DeclinedReloadKeepsDocument ==
    [][/\ DeclinedExternalReload'
            => /\ modified_ /\ modified_'
               /\ text' = text
               /\ current_file_' = current_file_
               /\ file_monitor_' = file_monitor_
               /\ ObservedMtime # file_mtime_utc_us_
               /\ file_mtime_utc_us_' = ObservedMtime
               /\ ~suppress_monitor_once_'
       /\ (DeclinedExternalReload /\ last'.op = "monitor"
             /\ ObservedMtime = file_mtime_utc_us_)
            => /\ last'.rec \in {"same", "othertype"}
               /\ last'.asked = <<>>
               /\ last'.io = "none"
               /\ text' = text
               /\ modified_' = modified_
               /\ file_mtime_utc_us_' = file_mtime_utc_us_]_vars

\* the user declined the reload of a dirty document whose file another program
\* had rewritten: the buffer differs from the file, lastMtime is the file's mtime
C27_Witness ==
    /\ DeclinedExternalReload
    /\ modified_
    /\ text # disk[current_file_]
    /\ file_mtime_utc_us_ = ObservedMtime
    /\ file_monitor_ = current_file_

\* C28: there is at most one file monitor, and it watches the current file:
\* file_monitor_ is null or the monitor of current_file_ after every step (it
\* is null at the start); a handler that starts a watch has dropped the one
\* before it; and every notification the handler gets is one of the watch on
\* the current file.
C28_SingleWatchOnCurrentFile ==
    [][/\ file_monitor_' # nullptr => file_monitor_' = current_file_'
       /\ last'.op = "monitor"
            => file_monitor_ # nullptr /\ file_monitor_ = current_file_
       /\ (last'.retired # "" /\ file_monitor_' # nullptr)
            => file_monitor_' = current_file_' /\ file_monitor_' # last'.retired]_vars

\* the document switched from a watched file to another file: the watch on the
\* first was retired and the only watch is on the new current file
C28_Witness ==
    /\ last.retired # "" /\ last.retired # current_file_
    /\ file_monitor_ = current_file_
    /\ last.io = "loaded"

\* the reconciler states: no watch; a watch with a suppression pending
Unwatched == file_monitor_ = nullptr
SuppressedOnce == file_monitor_ # nullptr /\ suppress_monitor_once_

\* this step ran remove_file_monitor and nothing that installs a monitor:
\* File > New carried out, or an open that found no file
StoppedWatching == last'.io \in {"new", "created"}

\* C29: stopping the watch leaves the reconciler Unwatched, whether it was
\* Unwatched, Watching or SuppressedOnce; stopping it twice leaves what
\* stopping it once leaves; and while Unwatched no notification reaches the
\* handler, so none reloads or prompts.
C29_StopWatchingIdempotent ==
    [][/\ StoppedWatching => Unwatched'
       /\ remove_file_monitor(World).file_monitor_ = nullptr
       /\ remove_file_monitor(remove_file_monitor(World)) = remove_file_monitor(World)
       /\ (Unwatched /\ StoppedWatching) => file_monitor_' = file_monitor_
       /\ Unwatched => last'.op # "monitor"]_vars

\* File > New stopped the watch while a suppression was pending
C29_Witness ==
    /\ last.op = "new_file" /\ last.io = "new"
    /\ last.retired # ""
    /\ suppress_monitor_once_
    /\ Unwatched
    /\ current_file_ = ""

\* C30: the search state does not outlive the text it was set for: after an
\* open or a reload that loaded a file, the search text is empty (until the
\* user sets one again).
C30_LoadResetsSearch ==
    [][last'.io = "loaded" => search_text' = <<>>]_vars

----------------------------------------------------------------------------
(* The trim of trailing whitespace, line by line *)

AsciiWhitespace == {" ", "\t", "\r", "\f", VT}

\* a line without the whitespace at its end
Stripped(line) ==
    LET keep == {n \in 0..Len(line) :
                   /\ n > 0 => line[n] \notin AsciiWhitespace
                   /\ \A i \in (n + 1)..Len(line) : line[i] \in AsciiWhitespace}
    IN SubSeq(line, 1, CHOOSE n \in keep : TRUE)

\* the lines joined again, a "\n" between each two
RECURSIVE JoinStripped(_)
JoinStripped(lines) ==
    IF Len(lines) = 1 THEN Stripped(lines[1])
    ELSE Stripped(lines[1]) \o <<"\n">> \o JoinStripped(Tail(lines))

\* C31: with only "trim trailing whitespace" enabled, a save writes the buffer
\* text with the trailing ASCII whitespace of each line removed and nothing
\* else changed: the lines of the text, each stripped, joined by "\n" again
\* ("a \nb\t\nc" is written as "a\nb\nc").
C31_TrimStripsOnlyTrailingWhitespace ==
    [][SavedWith(TRUE, FALSE) => Written = JoinStripped(SplitLines(text))]_vars

----------------------------------------------------------------------------
(* Find Next pressed again *)

\* the occurrence of p that follows the one at offset i, the leftmost one
\* after the last
NextOccurrence(t, p, i) ==
    LET after == {j \in Occurrences(t, p) : j > i}
    IN IF after # {} THEN Leftmost(after) ELSE Leftmost(Occurrences(t, p))

\* the last step was a forward find that selected the occurrence at offset i
FoundForward(i) ==
    /\ WasForwardFind
    /\ i \in Occurrences(text, search_text)
    /\ Selects(mark_insert, mark_selection_bound, i, search_text)

\* C32: when the pattern occurs at least twice, a forward find made right
\* after a forward find that selected an occurrence, for the same pattern and
\* with cursor and selection as that find left them, selects the occurrence
\* that follows the selected one, the leftmost one after the last.
C32_FindNextAdvances ==
    [][\A i \in 0..Len(text) :
          (/\ FoundForward(i)
           /\ ForwardFind /\ search_text' = search_text
           /\ Cardinality(Occurrences(text, search_text)) >= 2)
            => Selects(mark_insert', mark_selection_bound',
                       NextOccurrence(text, search_text, i), search_text)]_vars

----------------------------------------------------------------------------
(* When the suppression is armed *)

\* C33: whenever the one-shot suppression is pending, a file monitor is
\* installed and it watches the current file; so no failed save, no save of
\* an unwatched file and no change of document leaves the suppression armed
\* with nothing of the editor's own left to suppress.
C33_SuppressionOnlyWhileWatching ==
    suppress_monitor_once_ => (file_monitor_ # nullptr /\ file_monitor_ = current_file_)

----------------------------------------------------------------------------
(* The watch after a save *)

\* C34: after every successful Save or Save As the file written is the
\* current file, a monitor watches it, and lastMtime is the modification time
\* the write gave the file; this includes the save of a document that was
\* opened on a path with no file, or whose path came from the session.
C34_SaveLeavesWatching ==
    [][OwnWrite => /\ file_monitor_' # nullptr
                   /\ file_monitor_' = current_file_'
                   /\ file_mtime_utc_us_' = mtime'[current_file_']]_vars

----------------------------------------------------------------------------
(* Notifications of the other event types *)

\* C35: a file-monitor notification whose event type is none of CHANGED,
\* CHANGES_DONE_HINT, CREATED and MOVED_IN changes neither lastMtime nor the
\* pending suppression, nor the text, nor the dirty flag.
C35_OtherEventsChangeNothing ==
    [][(last'.op = "monitor" /\ last'.ev \notin ActedEvents)
         => /\ file_mtime_utc_us_' = file_mtime_utc_us_
            /\ suppress_monitor_once_' = suppress_monitor_once_
            /\ text' = text
            /\ modified_' = modified_]_vars

----------------------------------------------------------------------------
(* How often a handler asks *)

\* C36: a handler run on a dirty document (File > Open, File > Reload, the
\* reload after an external change) shows at most one confirmation prompt,
\* and when the user accepts that prompt the handler is not stopped by a
\* refusal.
C36_AtMostOnePrompt ==
    [][/\ Len(last'.asked) <= 1
       /\ (last'.asked # <<>> /\ last'.asked[1][2]) => last'.io # "declined"]_vars

----------------------------------------------------------------------------
(* Saving a document that was not edited *)

\* C37: a successful File > Save of a named document that is not dirty, whose
\* file exists, leaves in the file the save-time normalization of what the
\* file held; this includes the save right after start-up, when the path was
\* restored from the session.
C37_CleanSaveKeepsContent ==
    [][(OwnWrite /\ last'.op = "save_file" /\ ~modified_
        /\ current_file_ # "" /\ disk[current_file_] # NOENT)
         => disk'[current_file_] =
               apply_save_fixes(disk[current_file_], trim_ws_on_save_, ensure_newline_eof_)]_vars

====
